---- MODULE Spec2Model ----
(***************************************************************************)
(* The incremental COROS synchronisation engine of fetch_coros_data.py and *)
(* its two entry points: main() (batch) and the dashboard's auto-sync      *)
(* block in streamlit_app.py; and the inlet of the chat filter of          *)
(* openwebui_function_coros_coach.py.                                      *)
(*                                                                         *)
(* JSON documents are modelled by their parsed values: a list is a         *)
(* sequence, an object is a record, a missing key is a missing field.  A   *)
(* file is <<>> when it does not exist and <<content>> when it does.       *)
(* A labelId is the pair <<JSON type, digits>>: <<"int", 7>> is the number *)
(* 7 and <<"str", 7>> the string "7", which are different Python values.   *)
(***************************************************************************)
EXTENDS Integers, Sequences, FiniteSets, TLC

VARIABLES
    idKind,          \* JSON type the vendor uses for labelId: "str" or "int"
    remote,          \* the vendor's activity list, most recently recorded first
    activitiesFile,  \* data/activities.json
    analyseFile,     \* data/analyse.json
    dashboardFile,   \* data/dashboard.json
    metaFile,        \* data/fetch_meta.json
    data_synced,     \* "data_synced" in st.session_state
    access_token,    \* CONFIG["access_token"] of the current run
    pc,              \* position of the running entry point, "idle" between runs
    entry,           \* entry point of the current (or last) run
    existing,        \* sync_activities: existing
    known_ids,       \* sync_activities: known_ids
    all_new,         \* fetch_activities: all_new
    page,            \* fetch_activities: page
    meta,            \* main: meta
    requests_log,    \* the requests.get calls of the current run, with responses
    quiet_syncs,     \* activity syncs in a row (up to 2) that returned having seen only
                     \* successful responses, remote unchanged since the first began
    outcome,         \* how the last run of each entry point ended
    clock,           \* datetime.now(), counted in runs
    body,            \* Filter.inlet: the request body, as it stands
    received,        \* the request body as the chat front end sent it
    chat_pc          \* "wait", "inlet" (body received) or "sent" (inlet returned)

vars == << idKind, remote, activitiesFile, analyseFile, dashboardFile, metaFile,
           data_synced, access_token, pc, entry, existing, known_ids, all_new,
           page, meta, requests_log, quiet_syncs, outcome, clock,
           body, received, chat_pc >>

chat == << body, received, chat_pc >>

files == << activitiesFile, analyseFile, dashboardFile, metaFile >>

(***************************************************************************)
(* Bounds of the model.                                                    *)
(***************************************************************************)
\* CONFIG["page_size"] (20 in the source), scaled down so that several pages occur
page_size == 2
\* most activities the vendor holds
MaxRemote == 3
\* startTime values are 1..MaxTime
MaxTime == 1
\* largest totalPage a response reports
MaxTotalPage == 2
\* runs (of either entry point) in one behaviour
MaxRuns == 2
\* happenDay values are 1..MaxDay
MaxDay == 2
\* messages in a chat request
MaxMessages == 3

\* length of the known_label_ids sample, main(): list(all_ids)[:50]
MetaSample == 50

None == << >>
Some(x) == << x >>
Min(a, b) == IF a <= b THEN a ELSE b

(***************************************************************************)
(* _load_json / _save_json                                                 *)
(***************************************************************************)
\* _load_json(path) or default
LoadOr(file, default) == IF file = None THEN default ELSE file[1]

\* meta = _load_meta()
_load_meta == LoadOr(metaFile,
                [last_fetch |-> None, known_label_ids |-> {}, latest_happen_day |-> None])

(***************************************************************************)
(* Activities                                                              *)
(***************************************************************************)
\* str(a["labelId"]): the number 7 becomes the string "7", a string stays
Str(labelId) == << "str", labelId[2] >>

\* key=lambda a: a.get("startTime", 0)
StartTimeKey(a) == IF "startTime" \in DOMAIN a THEN a.startTime ELSE 0

RECURSIVE InsertDesc(_, _)
\* x, which stood before every element of the sorted s, goes before the first
\* element whose key is not greater (list.sort is stable, also with reverse=True)
InsertDesc(x, s) ==
    IF s = << >> THEN << x >>
    ELSE IF StartTimeKey(Head(s)) > StartTimeKey(x)
         THEN << Head(s) >> \o InsertDesc(x, Tail(s))
         ELSE << x >> \o s

RECURSIVE SortByStartTimeDesc(_)
\* merged.sort(key=lambda a: a.get("startTime", 0), reverse=True)
SortByStartTimeDesc(s) ==
    IF s = << >> THEN << >>
    ELSE InsertDesc(Head(s), SortByStartTimeDesc(Tail(s)))

\* known_ids = {str(a["labelId"]) for a in existing}
KnownIds(docs) == { Str(docs[i].labelId) : i \in 1..Len(docs) }

\* new_on_page = [a for a in data_list if a["labelId"] not in known_ids]
NewOnPage(data_list, known) == SelectSeq(data_list, LAMBDA a : a.labelId \notin known)

\* Merged keeping only the new items
MergedNewOnly(new_items, old) == SortByStartTimeDesc(new_items)

\* Merged without the sort
MergedUnsorted(new_items, old) == new_items \o old

\* merged = new_items + existing; merged.sort(...)
Merged(new_items, old) == SortByStartTimeDesc(new_items \o old)

\* the vendor's page pageNumber of size page_size of its list
ServerPage(list, pageNumber) ==
    SubSeq(list, (pageNumber - 1) * page_size + 1, Min(pageNumber * page_size, Len(list)))

\* the vendor's totalPage for its list
ServerTotalPage(list) == (Len(list) + page_size - 1) \div page_size

\* a response without totalPage
NoTotalPage == -1

\* total_pages = body["data"].get("totalPage", 1)
TotalPages(tp) == IF tp = NoTotalPage THEN 1 ELSE tp

RECURSIVE Dropping(_, _)
\* the subsets of set that lack k of its elements
Dropping(set, k) ==
    IF k = 0 THEN { set }
    ELSE UNION { Dropping(set \ { x }, k - 1) : x \in set }

\* Samples cutting the list one entry short
SamplesCapOffByOne(all_ids) ==
    IF Cardinality(all_ids) < MetaSample THEN { all_ids }
    ELSE Dropping(all_ids, Cardinality(all_ids) - (MetaSample - 1))

\* Samples without the [:50]
SamplesUncapped(all_ids) == { all_ids }

\* list(all_ids)[:50]: the first MetaSample elements of a set in iteration order,
\* which is any subset of MetaSample elements
Samples(all_ids) ==
    IF Cardinality(all_ids) <= MetaSample THEN { all_ids }
    ELSE Dropping(all_ids, Cardinality(all_ids) - MetaSample)

(***************************************************************************)
(* Daily metrics                                                           *)
(***************************************************************************)
\* doc.get("dayList", [])
DayListOf(doc) == IF "dayList" \in DOMAIN doc THEN doc.dayList ELSE << >>

HappenDays(day_list) == { day_list[i].happenDay : i \in 1..Len(day_list) }

\* existing_days = {d["happenDay"]: d for d in existing.get("dayList", [])}:
\* a later record of the same happenDay replaces the earlier one
ExistingDays(day_list) ==
    [ hd \in HappenDays(day_list) |->
        LET last == CHOOSE i \in 1..Len(day_list) :
                        /\ day_list[i].happenDay = hd
                        /\ \A j \in (i + 1)..Len(day_list) : day_list[j].happenDay # hd
        IN  day_list[last] ]

\* MergeDays dropping the remote days
MergeDaysLocalOnly(existing_days, api_list) == existing_days

\* MergeDays with the remote record replacing the stored one
MergeDaysRemoteWins(existing_days, api_list) ==
    [ hd \in DOMAIN existing_days \cup HappenDays(api_list) |->
        IF hd \in HappenDays(api_list)
        THEN api_list[CHOOSE i \in 1..Len(api_list) : api_list[i].happenDay = hd]
        ELSE existing_days[hd] ]

\* for day in api_data.get("dayList", []):
\*     if hd not in existing_days: existing_days[hd] = day
\* the first remote record of a happenDay not yet known is inserted
MergeDays(existing_days, api_list) ==
    [ hd \in DOMAIN existing_days \cup HappenDays(api_list) |->
        IF hd \in DOMAIN existing_days THEN existing_days[hd]
        ELSE LET first == CHOOSE i \in 1..Len(api_list) :
                              /\ api_list[i].happenDay = hd
                              /\ \A j \in 1..(i - 1) : api_list[j].happenDay # hd
             IN  api_list[first] ]

RECURSIVE SortedByHappenDayDesc(_)
\* SortedByHappenDay with the order reversed
SortedByHappenDayDesc(days) ==
    IF DOMAIN days = {} THEN << >>
    ELSE LET most == CHOOSE hd \in DOMAIN days : \A other \in DOMAIN days : hd >= other
         IN  << days[most] >> \o SortedByHappenDayDesc([ hd \in DOMAIN days \ { most } |-> days[hd] ])

RECURSIVE SortedByHappenDay(_)
\* sorted(existing_days.values(), key=lambda d: d["happenDay"])
SortedByHappenDay(days) ==
    IF DOMAIN days = {} THEN << >>
    ELSE LET least == CHOOSE hd \in DOMAIN days : \A other \in DOMAIN days : hd <= other
         IN  << days[least] >> \o SortedByHappenDay([ hd \in DOMAIN days \ { least } |-> days[hd] ])

\* MergeAnalyse writing only the fields of the remote bundle
MergeAnalyseRemoteFields(old, api_data) ==
    LET day_list == SortedByHappenDay(MergeDays(ExistingDays(DayListOf(old)), DayListOf(api_data)))
    IN  [ key \in DOMAIN api_data \cup { "dayList" } |->
            IF key = "dayList" THEN day_list ELSE api_data[key] ]

\* MergeAnalyse appending the remote dayList to the stored one
MergeAnalyseAppends(old, api_data) ==
    [ key \in DOMAIN old \cup DOMAIN api_data \cup { "dayList" } |->
        IF key = "dayList" THEN DayListOf(old) \o DayListOf(api_data)
        ELSE IF key \in DOMAIN api_data THEN api_data[key]
        ELSE old[key] ]

\* MergeAnalyse with a stored rollup winning over the remote one
MergeAnalyseKeepsLocal(old, api_data) ==
    LET day_list == SortedByHappenDay(MergeDays(ExistingDays(DayListOf(old)), DayListOf(api_data)))
    IN  [ key \in DOMAIN old \cup DOMAIN api_data \cup { "dayList" } |->
            IF key = "dayList" THEN day_list
            ELSE IF key \in DOMAIN old THEN old[key]
            ELSE api_data[key] ]

\* the merge of sync_analyse when data/analyse.json exists
MergeAnalyse(old, api_data) ==
    LET day_list == SortedByHappenDay(MergeDays(ExistingDays(DayListOf(old)), DayListOf(api_data)))
    IN  [ key \in DOMAIN old \cup DOMAIN api_data \cup { "dayList" } |->
            IF key = "dayList" THEN day_list
            ELSE IF key \in DOMAIN api_data THEN api_data[key]
            ELSE old[key] ]

\* SavedAnalyse without the bootstrap branch: a missing file merges as {}
SavedAnalyseAlwaysMerge(file, api_data) == MergeAnalyse(LoadOr(file, << >>), api_data)

\* what sync_analyse writes for a successful response
SavedAnalyse(file, api_data) ==
    IF file = None THEN api_data ELSE MergeAnalyse(file[1], api_data)

(***************************************************************************)
(* Responses                                                               *)
(***************************************************************************)
\* how a request ends: resp.raise_for_status() raises, body["data"] is missing,
\* the envelope's result is not "0000", or the request succeeds
Raising == { "http_error", "shape_error" }
Kinds == Raising \cup { "envelope_error", "ok" }

Exchange(url, pageNumber, kind, data, tp) ==
    [ url |-> url, pageNumber |-> pageNumber, kind |-> kind, data |-> data, totalPage |-> tp ]

(***************************************************************************)
(* The chat filter: Filter.inlet                                           *)
(***************************************************************************)
\* a message's content is a sequence of pieces of text, + is \o
SystemPromptMsg == [ role |-> "system", content |-> << "system_prompt" >> ]

\* context_msg: the heading followed by what _build_context returned
ContextMsg(context) == [ role |-> "system", content |-> << "heading" >> \o context ]

\* m.get("role")
Role(m) == IF "role" \in DOMAIN m THEN m.role ELSE "None"

\* body.get("messages", [])
MessagesOf(b) == IF "messages" \in DOMAIN b THEN b.messages ELSE << >>

\* any(m.get("role") == "system" for m in messages)
HasSystem(messages) == \E i \in 1..Len(messages) : Role(messages[i]) = "system"

\* sum(1 for m in messages if m.get("role") == "user")
UserMsgCount(messages) == Cardinality({ i \in 1..Len(messages) : Role(messages[i]) = "user" })

\* messages.insert(i, m) with Python's index i, 0 <= i <= len(messages)
Insert(messages, i, m) ==
    SubSeq(messages, 1, i) \o << m >> \o SubSeq(messages, i + 1, Len(messages))

\* if not has_system: messages.insert(0, {...system_prompt...})
WithSystemPrompt(messages) ==
    IF ~HasSystem(messages) THEN Insert(messages, 0, SystemPromptMsg) ELSE messages

\* ShouldInject for every conversation that has a user message
ShouldInjectAlways(messages) == UserMsgCount(messages) >= 1

\* if user_msg_count == 1
ShouldInject(messages) == UserMsgCount(messages) = 1

\* for i, m in enumerate(messages): if user: messages.insert(i, context_msg); break
WithContext(messages, context) ==
    IF \E i \in 1..Len(messages) : Role(messages[i]) = "user"
    THEN LET first == CHOOSE i \in 1..Len(messages) :
                          /\ Role(messages[i]) = "user"
                          /\ \A j \in 1..(i - 1) : Role(messages[j]) # "user"
         IN  Insert(messages, first - 1, ContextMsg(context))
    ELSE messages

\* what inlet returns: body with body["messages"] = messages
inlet(b, context) ==
    LET prompted == WithSystemPrompt(MessagesOf(b))
        messages == IF ShouldInject(prompted) THEN WithContext(prompted, context)
                    ELSE prompted
    IN  [ key \in DOMAIN b \cup { "messages" } |->
            IF key = "messages" THEN messages ELSE b[key] ]

NoBody == [ model |-> "coach" ]

\* no chat request is being handled
ChatIdle ==
    /\ body = NoBody
    /\ received = NoBody
    /\ chat_pc = "wait"

(***************************************************************************)
(* Initial state: a fresh checkout, nothing fetched, no session            *)
(***************************************************************************)
Init ==
    /\ idKind \in { "str", "int" }
    /\ remote = << >>
    /\ activitiesFile = None
    /\ analyseFile = None
    /\ dashboardFile = None
    /\ metaFile = None
    /\ data_synced = FALSE
    /\ access_token = ""
    /\ pc = "idle"
    /\ entry = "main"
    /\ existing = << >>
    /\ known_ids = {}
    /\ all_new = << >>
    /\ page = 1
    /\ meta = _load_meta
    /\ requests_log = << >>
    /\ quiet_syncs = 0
    /\ outcome = [ e \in { "main", "auto" } |-> "none" ]
    /\ clock = 0
    /\ ChatIdle

(***************************************************************************)
(* The vendor records a new session: it heads the list under a fresh id    *)
(***************************************************************************)
RemoteAdd(a) ==
    /\ Len(remote) < MaxRemote
    /\ a.labelId = << idKind, Len(remote) + 1 >>
    /\ remote' = << a >> \o remote
    /\ quiet_syncs' = 0
    /\ UNCHANGED << chat, idKind, files, data_synced, access_token, pc, entry, existing,
                    known_ids, all_new, page, meta, requests_log, outcome, clock >>

(***************************************************************************)
(* Entry points                                                            *)
(***************************************************************************)
\* the first lines of sync_activities
EnterSyncActivities ==
    /\ existing' = LoadOr(activitiesFile, << >>)
    /\ known_ids' = KnownIds(LoadOr(activitiesFile, << >>))
    /\ all_new' = << >>
    /\ page' = 1
    /\ pc' = "fetch"

\* MainGuard without the check
MainGuardMissing(tok) == TRUE

\* if not CONFIG["access_token"]: raise SystemExit(1)
MainGuard(tok) == tok # ""

\* main() up to the first request
Main(tok) ==
    /\ pc = "idle"
    /\ clock < MaxRuns
    /\ clock' = clock + 1
    /\ entry' = "main"
    /\ access_token' = tok
    /\ requests_log' = << >>
    /\ IF MainGuard(tok)
       THEN /\ meta' = _load_meta
            /\ EnterSyncActivities
            /\ outcome' = [ outcome EXCEPT !.main = "running" ]
       ELSE /\ outcome' = [ outcome EXCEPT !.main = "SystemExit" ]
            /\ UNCHANGED << pc, existing, known_ids, all_new, page, meta >>
    /\ UNCHANGED << chat, idKind, remote, files, data_synced, quiet_syncs >>

\* if not _tok: st.warning(...)
AutoGuard(tok) == tok # ""

\* the auto-sync block of streamlit_app.py up to the first request
AutoSync(tok) ==
    /\ pc = "idle"
    /\ ~data_synced
    /\ clock < MaxRuns
    /\ clock' = clock + 1
    /\ entry' = "auto"
    /\ access_token' = tok
    /\ requests_log' = << >>
    /\ IF AutoGuard(tok)
       THEN /\ EnterSyncActivities
            /\ outcome' = [ outcome EXCEPT !.auto = "running" ]
            /\ UNCHANGED data_synced
       ELSE /\ outcome' = [ outcome EXCEPT !.auto = "skipped" ]
            /\ data_synced' = TRUE
            /\ UNCHANGED << pc, existing, known_ids, all_new, page >>
    /\ UNCHANGED << chat, idKind, remote, files, meta, quiet_syncs >>

\* a new browser session: st.session_state starts empty
NewSession ==
    /\ pc = "idle"
    /\ data_synced
    /\ data_synced' = FALSE
    /\ UNCHANGED << chat, idKind, remote, files, access_token, pc, entry, existing, known_ids,
                    all_new, page, meta, requests_log, quiet_syncs, outcome, clock >>

\* Raise leaving the session flag as it is
RaiseForgetsFlag ==
    /\ pc' = "idle"
    /\ outcome' = [ outcome EXCEPT ![entry] = IF entry = "main" THEN "exception" ELSE "warning" ]
    /\ UNCHANGED data_synced

\* Raise with the exception swallowed: the run goes on with the dashboard
RaiseSwallowed ==
    /\ pc' = "dashboard"
    /\ UNCHANGED << outcome, data_synced >>

\* an exception leaves the running entry point: main() dies with a traceback,
\* the auto-sync block's except Exception shows a warning and sets data_synced
Raise ==
    /\ pc' = "idle"
    /\ outcome' = [ outcome EXCEPT ![entry] = IF entry = "main" THEN "exception" ELSE "warning" ]
    /\ data_synced' = (IF entry = "auto" THEN TRUE ELSE data_synced)

\* the pages received so far are those of the vendor's list as it stands: the
\* list did not change since the first request of the run
SameList(log) ==
    \A i \in 1..Len(log) : log[i].data = ServerPage(remote, log[i].pageNumber)

(***************************************************************************)
(* fetch_activities: one pass of the while loop, and, when the loop ends,  *)
(* the rest of sync_activities                                             *)
(***************************************************************************)
\* NextPage going on as long as pages hold data
NextPageWhileData(kind, data_list, new_on_page, tp) ==
    /\ kind = "ok"
    /\ data_list # << >>

\* NextPage without the totalPage test
NextPageIgnoresTotal(kind, data_list, new_on_page, tp) ==
    /\ kind = "ok"
    /\ data_list # << >>
    /\ Len(new_on_page) # 0
    /\ ~(Len(new_on_page) < Len(data_list))

\* NextPage going on when the page number equals totalPage
NextPagePastTotal(kind, data_list, new_on_page, tp) ==
    /\ kind = "ok"
    /\ data_list # << >>
    /\ Len(new_on_page) # 0
    /\ ~(Len(new_on_page) < Len(data_list))
    /\ ~(page > TotalPages(tp))

\* NextPage stopping one page early
NextPageOffByOne(kind, data_list, new_on_page, tp) ==
    /\ kind = "ok"
    /\ data_list # << >>
    /\ Len(new_on_page) # 0
    /\ ~(Len(new_on_page) < Len(data_list))
    /\ ~(page + 1 >= TotalPages(tp))

\* the loop goes on to the next page
NextPage(kind, data_list, new_on_page, tp) ==
    /\ kind = "ok"
    /\ data_list # << >>
    /\ Len(new_on_page) # 0
    /\ ~(Len(new_on_page) < Len(data_list))
    /\ ~(page >= TotalPages(tp))

\* if new_items: merged = ...; _save_json(ACTIVITIES_FILE, merged)
SavedActivities(new_items, old, file) ==
    IF new_items # << >> THEN Some(Merged(new_items, old)) ELSE file

FetchActivities(kind, tp) ==
    /\ pc = "fetch"
    /\ LET data_list == IF kind = "ok" THEN ServerPage(remote, page) ELSE << >>
           new_on_page == NewOnPage(data_list, known_ids)
           new_items == all_new \o new_on_page
       IN  /\ requests_log' = Append(requests_log, Exchange("activity", page, kind, data_list, tp))
           /\ all_new' = new_items
           /\ IF kind \in Raising
              THEN /\ Raise
                   /\ quiet_syncs' = 0
                   /\ UNCHANGED << activitiesFile, page, meta >>
              ELSE IF NextPage(kind, data_list, new_on_page, tp)
              THEN /\ page' = page + 1
                   /\ UNCHANGED << activitiesFile, pc, outcome, data_synced, meta, quiet_syncs >>
              ELSE /\ quiet_syncs' = (IF kind = "ok" /\ SameList(requests_log) /\ data_list = ServerPage(remote, page)
                                       THEN Min(quiet_syncs + 1, 2) ELSE 0)
                   /\ activitiesFile' = SavedActivities(new_items, existing, activitiesFile)
                   /\ IF entry = "main"
                      THEN \E sample \in Samples(KnownIds(new_items \o existing)) :
                               meta' = [ meta EXCEPT !.known_label_ids = sample ]
                      ELSE UNCHANGED meta
                   /\ pc' = "analyse"
                   /\ UNCHANGED << page, outcome, data_synced >>
    /\ UNCHANGED << chat, idKind, remote, analyseFile, dashboardFile, metaFile, access_token,
                    entry, existing, known_ids, clock >>

(***************************************************************************)
(* sync_analyse                                                            *)
(***************************************************************************)
SyncAnalyse(kind, api_data) ==
    /\ pc = "analyse"
    /\ requests_log' = Append(requests_log, Exchange("analyse", 0, kind, api_data, NoTotalPage))
    /\ IF kind \in Raising
       THEN /\ Raise
            /\ UNCHANGED analyseFile
       ELSE /\ analyseFile' = IF kind = "ok" THEN Some(SavedAnalyse(analyseFile, api_data))
                              ELSE analyseFile
            /\ pc' = "dashboard"
            /\ UNCHANGED << outcome, data_synced >>
    /\ UNCHANGED << chat, idKind, remote, activitiesFile, dashboardFile, metaFile, access_token,
                    entry, existing, known_ids, all_new, page, meta, quiet_syncs, clock >>

(***************************************************************************)
(* sync_dashboard, and the end of the run: _save_meta                      *)
(***************************************************************************)
\* meta["last_fetch"] = datetime.now().isoformat(); _save_json(META_FILE, meta)
_save_meta(m) == Some([ m EXCEPT !.last_fetch = Some(clock) ])

\* SavedDashboard writing whatever the response carried
SavedDashboardAlways(kind, data, file) == Some(data)

\* _save_json(DASHBOARD_FILE, body["data"]), reached only when result is "0000"
SavedDashboard(kind, data, file) == IF kind = "ok" THEN Some(data) ELSE file

SyncDashboard(kind, data) ==
    /\ pc = "dashboard"
    /\ requests_log' = Append(requests_log, Exchange("dashboard", 0, kind, data, NoTotalPage))
    /\ IF kind \in Raising
       THEN /\ Raise
            /\ UNCHANGED << dashboardFile, metaFile >>
       ELSE /\ dashboardFile' = SavedDashboard(kind, data, dashboardFile)
            /\ metaFile' = IF entry = "main" THEN _save_meta(meta) ELSE _save_meta(_load_meta)
            /\ pc' = "idle"
            /\ outcome' = [ outcome EXCEPT ![entry] = IF entry = "main" THEN "complete" ELSE "toast" ]
            /\ data_synced' = (IF entry = "auto" THEN TRUE ELSE data_synced)
    /\ UNCHANGED << chat, idKind, remote, activitiesFile, analyseFile, access_token, entry,
                    existing, known_ids, all_new, page, meta, quiet_syncs, clock >>

(***************************************************************************)
(* Inputs                                                                  *)
(***************************************************************************)
Tokens == { "", "tok" }

\* an activity as the vendor reports it; startTime may be missing
Activities ==
    { [ labelId |-> << k, n >> ] : k \in { "str", "int" }, n \in 1..MaxRemote }
    \cup { [ labelId |-> << k, n >>, startTime |-> t ] :
             k \in { "str", "int" }, n \in 1..MaxRemote, t \in 1..MaxTime }

ActivityResponses ==
    { << k, NoTotalPage >> : k \in Kinds \ { "ok" } }
    \cup { << "ok", tp >> : tp \in { NoTotalPage } \cup 0..MaxTotalPage }

DayRecords == [ happenDay : 1..MaxDay, vo2max : { 50, 52 } ]

DayLists == { << >> } \cup { << d >> : d \in DayRecords }
            \cup { << d, e >> : d \in DayRecords, e \in DayRecords }

Rollups == { 1, 2 }

\* a metrics bundle: dayList and the rollup weekList, either of which may be missing
Bundles ==
    { [ dayList |-> l, weekList |-> w ] : l \in DayLists, w \in Rollups }
    \cup { [ dayList |-> l ] : l \in DayLists }
    \cup { [ weekList |-> w ] : w \in Rollups }

AnalyseResponses ==
    { << k, << >> >> : k \in Kinds \ { "ok" } } \cup { << "ok", b >> : b \in Bundles }

Dashboards == { 1, 2 }

DashboardResponses ==
    { << k, 0 >> : k \in Kinds \ { "ok" } } \cup { << "ok", d >> : d \in Dashboards }

\* the inputs of the orchestration specification: one bundle, one snapshot
OneBundle == [ dayList |-> << [ happenDay |-> 1, vo2max |-> 50 ] >>, weekList |-> 1 ]
Timed == { a \in Activities : "startTime" \in DOMAIN a /\ a.startTime = 1 }

(***************************************************************************)
(* Spec: whole runs of both entry points, every request of which may fail  *)
(***************************************************************************)
Next ==
    \/ \E a \in Timed : RemoteAdd(a)
    \/ \E tok \in Tokens : Main(tok)
    \/ \E tok \in Tokens : AutoSync(tok)
    \/ NewSession
    \/ \E k \in Kinds : FetchActivities(k, IF k = "ok" THEN ServerTotalPage(remote) ELSE NoTotalPage)
    \/ \E k \in Kinds : SyncAnalyse(k, IF k = "ok" THEN OneBundle ELSE << >>)
    \/ \E r \in DashboardResponses : SyncDashboard(r[1], r[2])

Spec == Init /\ [][Next]_vars

(***************************************************************************)
(* SpecActivities: the activity sync of main() against every list and      *)
(* every response                                                          *)
(***************************************************************************)
NextActivities ==
    \/ \E a \in Activities : RemoteAdd(a)
    \/ Main("tok")
    \/ \E r \in ActivityResponses : FetchActivities(r[1], r[2])
    \/ SyncAnalyse("ok", OneBundle)
    \/ SyncDashboard("ok", 1)

SpecActivities == Init /\ [][NextActivities]_vars

(***************************************************************************)
(* SpecAnalyse: the metrics sync against every bundle                      *)
(***************************************************************************)
NextAnalyse ==
    \/ Main("tok")
    \/ AutoSync("tok")
    \/ NewSession
    \/ FetchActivities("ok", 0)
    \/ \E r \in AnalyseResponses : SyncAnalyse(r[1], r[2])
    \/ SyncDashboard("ok", 1)

SpecAnalyse == Init /\ [][NextAnalyse]_vars

(***************************************************************************)
(* SpecMeta: runs over a long history.  The vendor holds MetaSample + 1    *)
(* activities and the store holds the oldest of them, all but at most      *)
(* MaxRemote, so that a run knows more ids than known_label_ids may hold.  *)
(* labelIds are strings here.                                              *)
(***************************************************************************)
LongList ==
    [ i \in 1..(MetaSample + 1) |->
        [ labelId |-> << idKind, MetaSample + 2 - i >>, startTime |-> 1 ] ]

InitLarge ==
    /\ idKind = "str"
    /\ remote = LongList
    /\ \E lag \in 0..MaxRemote :
          activitiesFile = Some(SubSeq(LongList, lag + 1, MetaSample + 1))
    /\ analyseFile = None
    /\ dashboardFile = None
    /\ metaFile = None
    /\ data_synced = FALSE
    /\ access_token = ""
    /\ pc = "idle"
    /\ entry = "main"
    /\ existing = << >>
    /\ known_ids = {}
    /\ all_new = << >>
    /\ page = 1
    /\ meta = _load_meta
    /\ requests_log = << >>
    /\ quiet_syncs = 0
    /\ outcome = [ e \in { "main", "auto" } |-> "none" ]
    /\ clock = 0
    /\ ChatIdle

NextMeta ==
    \/ Main("tok")
    \/ AutoSync("tok")
    \/ NewSession
    \/ \E k \in { "ok", "envelope_error" } :
          FetchActivities(k, IF k = "ok" THEN ServerTotalPage(remote) ELSE NoTotalPage)
    \/ SyncAnalyse("ok", OneBundle)
    \/ SyncDashboard("ok", 1)

SpecMeta == InitLarge /\ [][NextMeta]_vars

(***************************************************************************)
(* SpecInlet: the chat filter on every conversation of up to MaxMessages   *)
(* messages                                                                *)
(***************************************************************************)
\* the front end sends a request body
Request(b) ==
    /\ chat_pc = "wait"
    /\ body' = b
    /\ received' = b
    /\ chat_pc' = "inlet"
    /\ UNCHANGED << idKind, remote, files, data_synced, access_token, pc, entry, existing,
                    known_ids, all_new, page, meta, requests_log, quiet_syncs, outcome, clock >>

\* Filter.inlet runs on the body; context is what _build_context returns
Inlet(context) ==
    /\ chat_pc = "inlet"
    /\ body' = inlet(body, context)
    /\ chat_pc' = "sent"
    /\ UNCHANGED << received, idKind, remote, files, data_synced, access_token, pc, entry,
                    existing, known_ids, all_new, page, meta, requests_log, quiet_syncs,
                    outcome, clock >>

\* the body inlet returned goes on to the language model
Forward ==
    /\ chat_pc = "sent"
    /\ body' = NoBody
    /\ received' = NoBody
    /\ chat_pc' = "wait"
    /\ UNCHANGED << idKind, remote, files, data_synced, access_token, pc, entry, existing,
                    known_ids, all_new, page, meta, requests_log, quiet_syncs, outcome, clock >>

\* messages as the front end sends them: with a role or without one
Messages ==
    [ role : { "system", "user", "assistant" }, content : { << "a" >>, << "b" >> } ]
    \cup { [ content |-> << "a" >> ] }

Conversations == UNION { [ 1..n -> Messages ] : n \in 0..MaxMessages }

\* request bodies: with a conversation, or without the messages key
Bodies == { NoBody } \cup { [ model |-> "coach", messages |-> c ] : c \in Conversations }

\* _build_context: the files joined, or the text of a failed download
Contexts == { << "files" >>, << "download failed" >> }

NextInlet ==
    \/ \E b \in Bodies : Request(b)
    \/ \E context \in Contexts : Inlet(context)
    \/ Forward

SpecInlet == Init /\ [][NextInlet]_vars

(***************************************************************************)
(* Notions the properties share                                            *)
(***************************************************************************)
\* the stored Activities document, empty when the file does not exist
StoredActivities == LoadOr(activitiesFile, << >>)

Range(s) == { s[i] : i \in 1..Len(s) }

\* the page requests of the current run
ActivityLog == SelectSeq(requests_log, LAMBDA x : x.url = "activity")

Last(s) == s[Len(s)]

\* sync_activities of the current run has returned (it did not raise)
ActivitySyncReturned ==
    /\ pc # "fetch"
    /\ ActivityLog # << >>
    /\ Last(ActivityLog).kind \notin Raising

\* every page request of the run succeeded with the page and the totalPage of
\* the vendor's list as it stands: the list did not change since the first request
FaithfulRun ==
    \A i \in 1..Len(ActivityLog) :
        /\ ActivityLog[i].kind = "ok"
        /\ ActivityLog[i].data = ServerPage(remote, ActivityLog[i].pageNumber)
        /\ ActivityLog[i].totalPage = ServerTotalPage(remote)

\* the records stored when the sync began are exactly the oldest of the vendor's list
KnownAreOldest ==
    \E k \in 0..Len(remote) :
        { existing[i].labelId : i \in 1..Len(existing) }
            = { remote[j].labelId : j \in (k + 1)..Len(remote) }

MostRecentFirst(list) ==
    \A i \in 1..Len(list) : \A j \in i..Len(list) :
        StartTimeKey(list[i]) >= StartTimeKey(list[j])

(***************************************************************************)
(* C1: the persisted Activities document holds each labelId at most once,  *)
(* whatever the pages fetched within a run or across runs contained.       *)
(* The code does not keep this: new_on_page is filtered against the ids    *)
(* known when the run began, not against those found on earlier pages.     *)
(***************************************************************************)
C1_NoDuplicateLabelId ==
    \A i \in 1..Len(StoredActivities) : \A j \in 1..Len(StoredActivities) :
        StoredActivities[i].labelId = StoredActivities[j].labelId => i = j

(***************************************************************************)
(* C2: when every page request of a sync succeeds with the vendor's pages  *)
(* and totalPage, and the locally stored records were exactly the oldest   *)
(* of the vendor's list, every remote activity is stored after the sync.   *)
(***************************************************************************)
C2_AllRemoteStored ==
    (ActivitySyncReturned /\ FaithfulRun /\ KnownAreOldest)
        => \A j \in 1..Len(remote) : remote[j] \in Range(StoredActivities)

\* a sync over two pages that found new records next to known ones
C2_Witness ==
    /\ ActivitySyncReturned /\ FaithfulRun /\ KnownAreOldest
    /\ MostRecentFirst(remote)
    /\ existing # << >>
    /\ all_new # << >>
    /\ page = 2

(***************************************************************************)
(* C3: a second activity sync in a row, with no new remote data, leaves    *)
(* the Activities document as the first left it.  quiet_syncs = 2 says     *)
(* that two syncs in a row saw only successful responses and an unchanged  *)
(* list; existing is the document the second one loaded.                   *)
(***************************************************************************)
C3_SecondRunUnchanged ==
    quiet_syncs = 2 => StoredActivities = existing

(***************************************************************************)
(* C4: the persisted Activities document is sorted descending by startTime *)
(* (a record without startTime counting as 0, as the sort key does), also  *)
(* after a sync that found nothing new.                                    *)
(***************************************************************************)
C4_SortedDescending ==
    \A i \in 1..Len(StoredActivities) : \A j \in i..Len(StoredActivities) :
        StartTimeKey(StoredActivities[i]) >= StartTimeKey(StoredActivities[j])

\* a sync that found nothing new has returned, and the document holds a record
\* without startTime behind one with a startTime
C4_Witness ==
    /\ ActivitySyncReturned
    /\ all_new = << >>
    /\ Len(StoredActivities) >= 2
    /\ "startTime" \in DOMAIN StoredActivities[1]
    /\ "startTime" \notin DOMAIN Last(StoredActivities)

(***************************************************************************)
(* C8: when the request for a page k > 1 fails, with an HTTP error or a    *)
(* non-success envelope, the new items of pages 1..k-1 are persisted.      *)
(* The code keeps this for the envelope only: raise_for_status() leaves    *)
(* sync_activities before anything is saved.                               *)
(***************************************************************************)
PageFailed(kinds) ==
    /\ pc # "fetch"
    /\ ActivityLog # << >>
    /\ Last(ActivityLog).pageNumber > 1
    /\ Last(ActivityLog).kind \in kinds

C8_PartialSyncPersisted ==
    PageFailed({ "http_error", "envelope_error" })
        => \A i \in 1..Len(all_new) : all_new[i] \in Range(StoredActivities)

(***************************************************************************)
(* C9: when the fetch of one resource fails, with a non-success envelope   *)
(* or an HTTP error, the syncs of the other resources are still attempted  *)
(* in that run: the finished run has requested all three resources.        *)
(* The code keeps this for the envelope only.                              *)
(***************************************************************************)
Resources == { "activity", "analyse", "dashboard" }

Requested(url) == \E i \in 1..Len(requests_log) : requests_log[i].url = url

FetchFailed(kinds) == \E i \in 1..Len(requests_log) : requests_log[i].kind \in kinds

C9_OtherResourcesAttempted ==
    (pc = "idle" /\ FetchFailed({ "http_error", "envelope_error" }))
        => \A url \in Resources : Requested(url)

(***************************************************************************)
(* C10: with an empty access token a run issues no request and writes no   *)
(* document, from main() and from the auto-sync block alike: every step    *)
(* that ends with the run's token empty leaves the request log empty and   *)
(* the four files as they were.                                            *)
(***************************************************************************)
C10_NoTokenNoRequestNoWrite ==
    [][ access_token' = "" => (requests_log' = << >> /\ files' = files) ]_vars

\* both entry points have stopped on an empty token
C10_Witness ==
    /\ access_token = ""
    /\ outcome.main = "SystemExit"
    /\ outcome.auto = "skipped"
    /\ requests_log = << >>

(***************************************************************************)
(* Metrics                                                                 *)
(***************************************************************************)
\* this step is sync_analyse returning after a successful response
AnalyseOkStep ==
    /\ pc = "analyse"
    /\ pc' = "dashboard"
    /\ Last(requests_log').kind = "ok"

\* the last response of the run is a successful metrics bundle
AnalyseOkDone ==
    /\ pc = "dashboard"
    /\ Last(requests_log).url = "analyse"
    /\ Last(requests_log).kind = "ok"

StoredDayList == DayListOf(LoadOr(analyseFile, << >>))

\* the records a day list holds for happenDay hd
RecordsOf(day_list, hd) == { r \in Range(day_list) : r.happenDay = hd }

StrictlyAscending(day_list) ==
    \A i \in 1..Len(day_list) : \A j \in (i + 1)..Len(day_list) :
        day_list[i].happenDay < day_list[j].happenDay

(***************************************************************************)
(* C5: day immutability.  No step changes what is stored for a happenDay   *)
(* the local document already holds: the day stays, and no record of the   *)
(* remote bundle takes the place of a stored one.                          *)
(***************************************************************************)
C5_DayImmutable ==
    [][ analyseFile # None =>
          /\ analyseFile' # None
          /\ \A hd \in HappenDays(DayListOf(analyseFile[1])) :
               /\ RecordsOf(DayListOf(analyseFile'[1]), hd) # {}
               /\ RecordsOf(DayListOf(analyseFile'[1]), hd)
                      \subseteq RecordsOf(DayListOf(analyseFile[1]), hd) ]_vars

\* the remote bundle reported a record for a stored day that differs from the
\* stored one, and the stored one stands
C5_Witness ==
    /\ AnalyseOkDone
    /\ \E r \in Range(DayListOf(Last(requests_log).data)) :
          /\ r \notin Range(StoredDayList)
          /\ RecordsOf(StoredDayList, r.happenDay) # {}

(***************************************************************************)
(* C6: the persisted dayList holds one record per happenDay in ascending   *)
(* order, after the bootstrap too and whatever the remote dayList.  The    *)
(* bootstrap stores the remote list as it is, so this fails; what holds is *)
(* C6_MergedDayListUniqueSorted: every merge into an existing document     *)
(* leaves the dayList unique and ascending.                                *)
(***************************************************************************)
C6_DayListUniqueSorted == StrictlyAscending(StoredDayList)

C6_MergedDayListUniqueSorted ==
    [][ (AnalyseOkStep /\ analyseFile # None)
          => StrictlyAscending(DayListOf(analyseFile'[1])) ]_vars

\* a merge of a remote dayList that is not ascending or repeats a day has
\* produced a stored dayList of two days
C6_Witness ==
    /\ AnalyseOkDone
    /\ ~StrictlyAscending(DayListOf(Last(requests_log).data))
    /\ StoredDayList # DayListOf(Last(requests_log).data)
    /\ Len(StoredDayList) = 2

(***************************************************************************)
(* C7: bootstrap.  When no local Metrics document exists and the fetch     *)
(* succeeds, the document written is the remote bundle as received.        *)
(***************************************************************************)
C7_BootstrapVerbatim ==
    [][ (AnalyseOkStep /\ analyseFile = None)
          => analyseFile' = Some(Last(requests_log').data) ]_vars

\* the first run has stored a bundle with a rollup field whose dayList is not
\* ascending
C7_Witness ==
    /\ AnalyseOkDone
    /\ clock = 1
    /\ analyseFile = Some(Last(requests_log).data)
    /\ "weekList" \in DOMAIN analyseFile[1]
    /\ Len(StoredDayList) = 2
    /\ ~StrictlyAscending(StoredDayList)

(***************************************************************************)
(* C11: dashboard refresh.  A successful fetch replaces the Dashboard      *)
(* document by the fetched data; a failed fetch writes nothing, so the     *)
(* snapshot persisted before stands.                                       *)
(***************************************************************************)
\* this step is the dashboard request
DashboardStep == pc = "dashboard" /\ Len(requests_log') = Len(requests_log) + 1

C11_DashboardRefresh ==
    [][ DashboardStep =>
          IF Last(requests_log').kind = "ok"
          THEN dashboardFile' = Some(Last(requests_log').data)
          ELSE dashboardFile' = dashboardFile ]_vars

\* a snapshot is on disk after a second run whose dashboard fetch failed
C11_Witness ==
    /\ pc = "idle"
    /\ clock = 2
    /\ requests_log # << >>
    /\ Last(requests_log).url = "dashboard"
    /\ Last(requests_log).kind \in { "http_error", "envelope_error" }
    /\ dashboardFile # None

(***************************************************************************)
(* C12: whenever the metadata document is on disk, its known_label_ids     *)
(* holds at most 50 entries, however many activities the store holds.      *)
(***************************************************************************)
C12_SampleBounded ==
    metaFile # None => Cardinality(metaFile[1].known_label_ids) <= MetaSample

\* the store holds more ids than the sample, which is full
C12_Witness ==
    /\ metaFile # None
    /\ Cardinality(metaFile[1].known_label_ids) = MetaSample
    /\ Cardinality(KnownIds(StoredActivities)) > MetaSample

(***************************************************************************)
(* C13: no step mutates or deletes a stored activity: every record of the  *)
(* Activities document is in the document after the step, as often as      *)
(* before, whatever the response and whether or not the step raises.       *)
(***************************************************************************)
Count(r, s) == Cardinality({ i \in 1..Len(s) : s[i] = r })

C13_RecordsKept ==
    [][ \A r \in Range(StoredActivities) :
            Count(r, StoredActivities') >= Count(r, StoredActivities) ]_vars

\* a sync has merged new records into a store that held some
C13_Witness ==
    /\ ActivitySyncReturned
    /\ existing # << >>
    /\ all_new # << >>
    /\ Len(StoredActivities) = Len(existing) + Len(all_new)

(***************************************************************************)
(* C14: end to end from an empty store.  When the first page response      *)
(* holds n activities with totalPage 1, a completed batch run leaves n     *)
(* records sorted descending by startTime, has made one page request, and  *)
(* has written min(n, 50) known_label_ids.                                 *)
(***************************************************************************)
SortedDesc(docs) ==
    \A i \in 1..Len(docs) : \A j \in i..Len(docs) :
        StartTimeKey(docs[i]) >= StartTimeKey(docs[j])

OnePageFromEmpty ==
    /\ pc = "idle"
    /\ entry = "main"
    /\ outcome.main = "complete"
    /\ existing = << >>
    /\ ActivityLog # << >>
    /\ ActivityLog[1].kind = "ok"
    /\ ActivityLog[1].totalPage = 1

C14_EndToEnd ==
    OnePageFromEmpty =>
        LET n == Len(ActivityLog[1].data)
        IN  /\ Len(StoredActivities) = n
            /\ SortedDesc(StoredActivities)
            /\ Len(ActivityLog) = 1
            /\ metaFile # None
            /\ Cardinality(metaFile[1].known_label_ids) = Min(n, MetaSample)

\* a full page was stored in another order than it came in
C14_Witness ==
    /\ OnePageFromEmpty
    /\ Len(ActivityLog[1].data) = page_size
    /\ StoredActivities # ActivityLog[1].data

(***************************************************************************)
(* C15: every run that passes the credential check ends by rewriting the   *)
(* metadata document with last_fetch set to the run's timestamp, also a    *)
(* run in which the fetch of a resource failed (HTTP error or non-success  *)
(* envelope).  The code keeps this for the envelope only.                  *)
(***************************************************************************)
C15_MetaRewritten ==
    (pc = "idle" /\ clock >= 1 /\ access_token # "" /\ ~FetchFailed({ "shape_error" }))
        => (metaFile # None /\ metaFile[1].last_fetch = Some(clock))

(***************************************************************************)
(* C17: partial-page stop.  A page holding at least one labelId that no    *)
(* stored record has and at least one that a stored record has is the last *)
(* page requested in its run, and its new items are stored.  The code      *)
(* keeps this for string labelIds only.                                    *)
(***************************************************************************)
StoredIdsAtStart == { existing[i].labelId : i \in 1..Len(existing) }

NotStored(data) == SelectSeq(data, LAMBDA a : a.labelId \notin StoredIdsAtStart)

PartialPage(x) ==
    /\ x.kind = "ok"
    /\ NotStored(x.data) # << >>
    /\ NotStored(x.data) # x.data

C17_PartialPageStops ==
    \A i \in 1..Len(ActivityLog) :
        PartialPage(ActivityLog[i]) =>
            /\ i = Len(ActivityLog)
            /\ pc # "fetch"
            /\ \A a \in Range(NotStored(ActivityLog[i].data)) :
                   a \in Range(StoredActivities)

(***************************************************************************)
(* C18: stop condition A, in particular: when every remote record is       *)
(* stored already, a sync whose requests all succeed makes one page        *)
(* request and writes nothing.  The code keeps this for string labelIds    *)
(* only.                                                                   *)
(***************************************************************************)
C18_AllKnownOneRequest ==
    (ActivityLog # << >> /\ FaithfulRun /\ Range(remote) \subseteq Range(existing))
        => /\ Len(ActivityLog) = 1
           /\ pc # "fetch"
           /\ StoredActivities = existing

(***************************************************************************)
(* C19: after a page that was fetched successfully and whose items are all *)
(* new, the next page is requested if and only if totalPage (1 when the    *)
(* response has none) is greater than the page number.                     *)
(***************************************************************************)
FullyNewPage(x) ==
    /\ x.kind = "ok"
    /\ x.data # << >>
    /\ NotStored(x.data) = x.data

C19_ContinueIffMorePages ==
    \A i \in 1..Len(ActivityLog) :
        FullyNewPage(ActivityLog[i]) =>
            IF TotalPages(ActivityLog[i].totalPage) > ActivityLog[i].pageNumber
            THEN \/ /\ i < Len(ActivityLog)
                    /\ ActivityLog[i + 1].pageNumber = ActivityLog[i].pageNumber + 1
                 \/ /\ i = Len(ActivityLog)
                    /\ pc = "fetch"
                    /\ page = ActivityLog[i].pageNumber + 1
            ELSE i = Len(ActivityLog) /\ pc # "fetch"

\* a second page was requested after a fully new first page, and the loop
\* stopped on a fully new second page that reached totalPage
C19_Witness ==
    /\ Len(ActivityLog) = 2
    /\ FullyNewPage(ActivityLog[1])
    /\ FullyNewPage(ActivityLog[2])
    /\ ActivityLog[2].totalPage = 2
    /\ pc # "fetch"

(***************************************************************************)
(* C20: an item of a page is classified as new if and only if no stored    *)
(* record has its labelId, for string and for integer labelIds.  The code  *)
(* keeps this for strings only.                                            *)
(***************************************************************************)
C20_NewIffNotStored ==
    /\ \A a \in Range(all_new) : a.labelId \notin StoredIdsAtStart
    /\ \A i \in 1..Len(ActivityLog) : \A a \in Range(ActivityLog[i].data) :
           a.labelId \notin StoredIdsAtStart => a \in Range(all_new)

(***************************************************************************)
(* C21: rollup overwrite.  When a local Metrics document exists and the    *)
(* fetch succeeds, every top-level field of the remote bundle other than   *)
(* dayList has the remote value in the document written, whatever the      *)
(* local document held for it.                                             *)
(***************************************************************************)
C21_RollupsOverwritten ==
    [][ (AnalyseOkStep /\ analyseFile # None) =>
          \A key \in DOMAIN Last(requests_log').data \ { "dayList" } :
              /\ key \in DOMAIN analyseFile'[1]
              /\ analyseFile'[1][key] = Last(requests_log').data[key] ]_vars

\* a merge (the stored dayList is not the remote one) in the second run has
\* stored the remote rollup
C21_Witness ==
    /\ AnalyseOkDone
    /\ clock = 2
    /\ StoredDayList # DayListOf(Last(requests_log).data)
    /\ "weekList" \in DOMAIN Last(requests_log).data
    /\ analyseFile[1].weekList = Last(requests_log).data.weekList

(***************************************************************************)
(* C22: day union.  When a local Metrics document exists and the fetch     *)
(* succeeds, the happenDays of the dayList written are those of the local  *)
(* dayList together with those of the remote dayList.                      *)
(***************************************************************************)
C22_DaysAreUnion ==
    [][ (AnalyseOkStep /\ analyseFile # None) =>
          HappenDays(DayListOf(analyseFile'[1]))
              = HappenDays(DayListOf(analyseFile[1]))
                    \cup HappenDays(DayListOf(Last(requests_log').data)) ]_vars

\* a merge has added a remote day to a stored one: the document holds two
\* days, the remote bundle one of them
C22_Witness ==
    /\ AnalyseOkDone
    /\ Cardinality(HappenDays(StoredDayList)) = 2
    /\ Cardinality(HappenDays(DayListOf(Last(requests_log).data))) = 1
    /\ StrictlyAscending(StoredDayList)

(***************************************************************************)
(* C23: in the dashboard auto-sync each resource's sync call has its own   *)
(* guard: an exception raised by the sync of one resource does not keep    *)
(* the following resources from being attempted in that auto-sync.  The    *)
(* code has one guard around the three calls.                              *)
(***************************************************************************)
C23_AutoSyncGuardsEachCall ==
    (entry = "auto" /\ pc = "idle" /\ outcome.auto = "warning" /\ FetchFailed(Raising))
        => \A url \in Resources : Requested(url)

(***************************************************************************)
(* C24: in the batch path an exception in one resource's sync ends the     *)
(* run: it is the last request of the run, the metadata document is not    *)
(* rewritten, and what the earlier resources wrote in the run stays.       *)
(***************************************************************************)
\* this step is a request of main() that raises
MainRaisingStep ==
    /\ entry = "main"
    /\ Len(requests_log') = Len(requests_log) + 1
    /\ Last(requests_log').kind \in Raising

C24_MainAborts ==
    /\ [] ( (entry = "main" /\ FetchFailed(Raising)) =>
              /\ pc = "idle"
              /\ outcome.main = "exception"
              /\ \A i \in 1..Len(requests_log) :
                     requests_log[i].kind \in Raising => i = Len(requests_log)
              /\ metaFile # None => metaFile[1].last_fetch # Some(clock) )
    /\ [][ MainRaisingStep => files' = files ]_vars

\* the dashboard request of the first run raised after the run had written
\* the Activities and Metrics documents: they are there, the metadata is not
C24_Witness ==
    /\ entry = "main"
    /\ pc = "idle"
    /\ clock = 1
    /\ outcome.main = "exception"
    /\ Last(requests_log).url = "dashboard"
    /\ activitiesFile # None
    /\ analyseFile # None
    /\ metaFile = None

(***************************************************************************)
(* C25: the auto-sync runs at most once per session.  Every step that ends *)
(* an auto-sync attempt (done, skipped for a missing token, or raised)     *)
(* leaves data_synced set, and while data_synced is set no step of the     *)
(* auto-sync issues a request.                                             *)
(***************************************************************************)
\* this step ends an attempt of the auto-sync block
AutoSyncEnds ==
    /\ entry' = "auto"
    /\ pc' = "idle"
    /\ pc # "idle" \/ clock' # clock

C25_OncePerSession ==
    /\ [][ AutoSyncEnds => data_synced' ]_vars
    /\ [][ data_synced => ~(entry' = "auto" /\ requests_log' # requests_log) ]_vars

\* the auto-sync of the first run raised, the flag is set, and a batch run
\* has since gone through the same session's idle state
C25_Witness ==
    /\ data_synced
    /\ pc = "idle"
    /\ outcome.auto = "warning"
    /\ entry = "main"
    /\ clock = 2

(***************************************************************************)
(* C26: the pagination loop ends.  The page numbers of one call of         *)
(* fetch_activities are 1, 2, 3, ...; when every response reports the same *)
(* totalPage T >= 1, or none, the call makes at most T requests (one when  *)
(* totalPage is missing); and an empty page is the last page requested.    *)
(***************************************************************************)
\* every successful response of the call reports totalPage T
AllReport(T) ==
    \A i \in 1..Len(ActivityLog) :
        ActivityLog[i].kind = "ok" => ActivityLog[i].totalPage = T

C26_PaginationBounded ==
    /\ \A i \in 1..Len(ActivityLog) : ActivityLog[i].pageNumber = i
    /\ pc = "fetch" => page = Len(ActivityLog) + 1
    /\ \A T \in { NoTotalPage } \cup 1..MaxTotalPage :
           AllReport(T) => Len(ActivityLog) <= TotalPages(T)
    /\ \A i \in 1..Len(ActivityLog) :
           (ActivityLog[i].kind = "ok" /\ ActivityLog[i].data = << >>)
               => (i = Len(ActivityLog) /\ pc # "fetch")

\* two fully new pages were fetched under totalPage 2, the second one short,
\* and the loop has stopped
C26_Witness ==
    /\ Len(ActivityLog) = 2
    /\ AllReport(2)
    /\ FullyNewPage(ActivityLog[1])
    /\ FullyNewPage(ActivityLog[2])
    /\ Len(ActivityLog[2].data) < page_size
    /\ pc # "fetch"

(***************************************************************************)
(* C27: in the metrics merge a top-level field that the local document     *)
(* has and the remote bundle lacks is left as it is, and no top-level      *)
(* field is removed.  The merge rewrites dayList also when the bundle has  *)
(* none, so this fails for dayList; what holds is C27_LocalRollupsKept:    *)
(* no field is removed, and every field but dayList that the bundle lacks  *)
(* keeps its value.                                                        *)
(***************************************************************************)
\* the top-level fields of the local document that the remote bundle lacks
LocalOnly == DOMAIN analyseFile[1] \ DOMAIN Last(requests_log').data

C27_LocalFieldsKept ==
    [][ (AnalyseOkStep /\ analyseFile # None) =>
          /\ DOMAIN analyseFile[1] \subseteq DOMAIN analyseFile'[1]
          /\ \A key \in LocalOnly : analyseFile'[1][key] = analyseFile[1][key] ]_vars

C27_LocalRollupsKept ==
    [][ (AnalyseOkStep /\ analyseFile # None) =>
          /\ DOMAIN analyseFile[1] \subseteq DOMAIN analyseFile'[1]
          /\ \A key \in LocalOnly \ { "dayList" } :
                 analyseFile'[1][key] = analyseFile[1][key] ]_vars

\* a bundle without weekList was merged into a document that has one
C27_Witness ==
    /\ AnalyseOkDone
    /\ "weekList" \notin DOMAIN Last(requests_log).data
    /\ "weekList" \in DOMAIN analyseFile[1]

(***************************************************************************)
(* C28: the metrics sync is idempotent: syncing again against the bundle   *)
(* just synced leaves the document as the first sync wrote it, also when   *)
(* the first sync was the bootstrap.  The bootstrap stores the bundle as   *)
(* received and the merge then sorts and dedups its dayList (or adds an    *)
(* empty one), so this fails; what holds is C28_MergeIdempotent: the       *)
(* second sync changes nothing when the first merged into an existing      *)
(* document, or bootstrapped a bundle whose dayList is there, unique and   *)
(* ascending.                                                              *)
(***************************************************************************)
\* sync_analyse against the bundle of this step, run on what this step wrote
SyncedAgain == SavedAnalyse(analyseFile', Last(requests_log').data)

NormalBundle(api_data) ==
    /\ "dayList" \in DOMAIN api_data
    /\ StrictlyAscending(api_data.dayList)

C28_SyncIdempotent ==
    [][ AnalyseOkStep => SyncedAgain = analyseFile'[1] ]_vars

C28_MergeIdempotent ==
    [][ (AnalyseOkStep /\ (analyseFile # None \/ NormalBundle(Last(requests_log').data)))
          => SyncedAgain = analyseFile'[1] ]_vars

\* the second run merged a bundle with a repeated day into a document, and
\* syncing that bundle again would write what is stored
C28_Witness ==
    /\ AnalyseOkDone
    /\ clock = 2
    /\ ~NormalBundle(Last(requests_log).data)
    /\ Len(DayListOf(Last(requests_log).data)) = 2
    /\ Cardinality(HappenDays(StoredDayList)) = 2
    /\ SavedAnalyse(analyseFile, Last(requests_log).data) = analyseFile[1]

(***************************************************************************)
(* C29: after every batch run that completes, each entry of the metadata   *)
(* known_label_ids is the labelId (in its string form, as the entries are  *)
(* written) of a record of the Activities document, and there are          *)
(* min(50, number of distinct stored labelIds) entries.                    *)
(***************************************************************************)
BatchComplete ==
    /\ entry = "main"
    /\ pc = "idle"
    /\ outcome.main = "complete"

C29_SampleOfStored ==
    BatchComplete =>
        /\ metaFile # None
        /\ metaFile[1].known_label_ids \subseteq KnownIds(StoredActivities)
        /\ Cardinality(metaFile[1].known_label_ids)
               = Min(MetaSample, Cardinality(KnownIds(StoredActivities)))

\* a batch run that stored new activities has ended with more stored
\* labelIds than the sample takes
C29_Witness ==
    /\ BatchComplete
    /\ all_new # << >>
    /\ Cardinality(KnownIds(StoredActivities)) = MetaSample + 1
    /\ Cardinality(metaFile[1].known_label_ids) = MetaSample

(***************************************************************************)
(* C30: the chat filter's inlet adds the training-data context message if  *)
(* and only if the conversation has exactly one user message, and then     *)
(* immediately before that message; it puts the system prompt at position  *)
(* 0 only when the conversation has no system message; and the messages    *)
(* it received are all there, in their order.                              *)
(***************************************************************************)
IsContext(m) == \E context \in Contexts : m = ContextMsg(context)

\* the sequence s without the elements at the positions in skipped
Without(s, skipped) ==
    LET kept == (1..Len(s)) \ skipped
    IN  [ k \in 1..Cardinality(kept) |->
            s[CHOOSE i \in kept : Cardinality({ j \in kept : j <= i }) = k] ]

C30_InletInjects ==
    chat_pc = "sent" =>
        LET in == MessagesOf(received)
            out == MessagesOf(body)
            promptAt == IF HasSystem(in) THEN {} ELSE { 1 }
            contextAt == { i \in 1..Len(out) : IsContext(out[i]) }
        IN  /\ (contextAt # {}) <=> (UserMsgCount(in) = 1)
            /\ Cardinality(contextAt) <= 1
            /\ \A i \in contextAt :
                   /\ i < Len(out)
                   /\ Role(out[i + 1]) = "user"
            /\ ~HasSystem(in) => (out # << >> /\ out[1] = SystemPromptMsg)
            /\ Without(out, promptAt \cup contextAt) = in
            /\ DOMAIN body = DOMAIN received \cup { "messages" }
            /\ \A key \in DOMAIN received \ { "messages" } : body[key] = received[key]

\* a conversation without a system message whose one user message is the
\* last of three came back with the prompt first and the context fourth
C30_Witness ==
    /\ chat_pc = "sent"
    /\ Len(MessagesOf(received)) = MaxMessages
    /\ ~HasSystem(MessagesOf(received))
    /\ UserMsgCount(MessagesOf(received)) = 1
    /\ Role(Last(MessagesOf(received))) = "user"
    /\ Len(MessagesOf(body)) = MaxMessages + 2
    /\ IsContext(MessagesOf(body)[MaxMessages + 1])

====
